---- MODULE Spec2Model ----
(***************************************************************************)
(* A model of gscholar's src/scholar/scholar.rs: the query-URL builder     *)
(* ScholarArgs::get_url, the result extractor Client::scrape_serialize and *)
(* the search client Client::scrape_scholar with Client::get_document.     *)
(*                                                                         *)
(* Text is a sequence of one-character strings, so that concatenation,     *)
(* decimal formatting and URL normalisation are computed character by      *)
(* character.  Option<T> is a sequence of length 0 (None) or 1 (Some).     *)
(***************************************************************************)
EXTENDS Integers, Sequences, FiniteSets

VARIABLES
    pc,            \* position of the running call
    args,          \* the ScholarArgs of the call
    parserAccepts, \* verdict of url::Url::parse on the assembled text
    urlOutcome,    \* what get_url returned
    requests,      \* the URLs a GET was issued for, in order
    sendOutcome,   \* "none" | "ok" | "failed": reqwest's send()
    textOutcome,   \* "none" | "ok" | "failed": reqwest's text()
    document,      \* the parsed HTML document handed to scrape_serialize
    extractorRuns, \* how many times scrape_serialize ran
    result         \* what the call returned

vars == <<pc, args, parserAccepts, urlOutcome, requests, sendOutcome,
          textOutcome, document, extractorRuns, result>>

----------------------------------------------------------------------------
(* Bounds of the model *)

\* longest free-text query enumerated over QueryAlphabet
MaxQueryLen == 2

\* most ".gs_ri" result blocks in an enumerated document
MaxBlocks == 2

----------------------------------------------------------------------------
(* Option<T>, Result<T, Error> and the Error enum *)

None == <<>>

Some(x) == <<x>>

IsSome(o) == o # <<>>

Unwrap(o) == o[1]

\* enum Error
ErrorKinds ==
    {"ConnectionError", "ParseError", "InvalidServiceError",
     "RequiredFieldError", "NotImplementedError", "InvalidResponseError"}

Ok(v) == [ok |-> TRUE, val |-> v, err |-> "", target |-> <<>>]

Err(kind) == [ok |-> FALSE, val |-> <<>>, err |-> kind, target |-> <<>>]

\* Error::ConnectionError(String)
ConnectionError(url) ==
    [ok |-> FALSE, val |-> <<>>, err |-> "ConnectionError", target |-> url]

\* no value yet
Pending == [ok |-> FALSE, val |-> <<>>, err |-> "pending", target |-> <<>>]

----------------------------------------------------------------------------
(* Text helpers *)

RECURSIVE ConcatRange(_, _, _)
\* the concatenation of the texts ss[lo], ..., ss[hi]
ConcatRange(ss, lo, hi) ==
    IF lo > hi THEN <<>>
    ELSE IF lo = hi THEN ss[lo]
    ELSE LET mid == (lo + hi) \div 2
         IN  ConcatRange(ss, lo, mid) \o ConcatRange(ss, mid + 1, hi)

\* the concatenation of a sequence of texts
Concat(ss) == ConcatRange(ss, 1, Len(ss))

\* whether text sub occurs in text s starting at position i
OccursAt(s, sub, i) ==
    /\ i + Len(sub) - 1 <= Len(s)
    /\ \A k \in 1..Len(sub) : s[i + k - 1] = sub[k]

\* the positions at which sub occurs in s
Occurrences(s, sub) == {i \in 1..Len(s) : OccursAt(s, sub, i)}

Contains(s, sub) == Occurrences(s, sub) # {}

DigitChar(d) ==
    CASE d = 0 -> "0" [] d = 1 -> "1" [] d = 2 -> "2" [] d = 3 -> "3"
      [] d = 4 -> "4" [] d = 5 -> "5" [] d = 6 -> "6" [] d = 7 -> "7"
      [] d = 8 -> "8" [] d = 9 -> "9"

RECURSIVE to_string(_)
\* <unsigned integer>::to_string(): decimal, no leading zeros, no grouping
to_string(n) ==
    IF n < 10 THEN <<DigitChar(n)>>
    ELSE to_string(n \div 10) \o <<DigitChar(n % 10)>>

----------------------------------------------------------------------------
(* url::Url::parse(..).to_string() on a text that starts with the base URL *)

\* the parser strips C0 controls and spaces from both ends of its input
RECURSIVE TrimEnd(_)
TrimEnd(s) ==
    IF s # <<>> /\ s[Len(s)] \in {" ", "\t", "\n", "\r"}
    THEN TrimEnd(SubSeq(s, 1, Len(s) - 1))
    ELSE s

\* the parser skips ASCII tab and newline wherever they stand
StripTabNewline(s) == SelectSeq(s, LAMBDA c : c \notin {"\t", "\n", "\r"})

\* percent-encoding of one character of the query of a special-scheme URL
EncodeQueryChar(c) ==
    CASE c = " " -> <<"%", "2", "0">>
      [] c = "\"" -> <<"%", "2", "2">>
      [] c = "<" -> <<"%", "3", "C">>
      [] c = ">" -> <<"%", "3", "E">>
      [] c = "'" -> <<"%", "2", "7">>
      [] OTHER -> <<c>>

\* percent-encoding of one character of the fragment (the grave accent, which
\* the fragment set also encodes, is not a character of any modelled text)
EncodeFragmentChar(c) ==
    CASE c = " " -> <<"%", "2", "0">>
      [] c = "\"" -> <<"%", "2", "2">>
      [] c = "<" -> <<"%", "3", "C">>
      [] c = ">" -> <<"%", "3", "E">>
      [] OTHER -> <<c>>

\* where the fragment starts: the first '#', or past the end without one
FragmentStart(s) ==
    IF \E i \in 1..Len(s) : s[i] = "#"
    THEN CHOOSE i \in 1..Len(s) :
            s[i] = "#" /\ \A j \in 1..(i - 1) : s[j] # "#"
    ELSE Len(s) + 1

\* the query runs to the first '#', the fragment from there to the end
EncodeAll(s) ==
    LET h == FragmentStart(s)
    IN  ConcatRange([i \in 1..Len(s) |->
                        IF i < h THEN EncodeQueryChar(s[i])
                        ELSE IF i = h THEN <<"#">>
                        ELSE EncodeFragmentChar(s[i])], 1, Len(s))

\* the serialization of the parsed URL
UrlSerialize(s) == EncodeAll(StripTabNewline(TrimEnd(s)))

\* Whether url::Url::parse accepts the text is the url crate's verdict, which
\* the action that calls get_url draws: the crate escapes the characters of a
\* query and a fragment instead of rejecting them, and rejects a text with
\* this base only when its own limits are exceeded.
MapUrlParseError_Invalid == "InvalidResponseError"

\* .map_err(|_| Error::ParseError)
MapUrlParseError == "ParseError"

UrlParse(s, accepted) ==
    IF accepted THEN Ok(UrlSerialize(s)) ELSE Err(MapUrlParseError)

----------------------------------------------------------------------------
(* ScholarArgs::get_url *)

\* fn get_base_url(service), Services::Scholar
get_base_url ==
    <<"h", "t", "t", "p", "s", ":", "/", "/", "s", "c", "h", "o", "l", "a",
      "r", ".", "g", "o", "o", "g", "l", "e", ".", "c", "o", "m", "/", "s",
      "c", "h", "o", "l", "a", "r", "?">>

QueryMissing_Never(self) == FALSE

\* if self.query.is_empty()
QueryMissing(self) == self.query = <<>>

PushQuery_Trailing(url, self) == url \o <<"q", "=">> \o self.query \o <<"&">>

PushQuery(url, self) == url \o <<"q", "=">> \o self.query

PushCiteId(url, self) ==
    IF IsSome(self.cite_id)
    THEN url \o <<"&", "c", "i", "t", "e", "s", "=">> \o Unwrap(self.cite_id)
    ELSE url

PushFromYear(url, self) ==
    IF IsSome(self.from_year)
    THEN url \o <<"&", "a", "s", "_", "y", "l", "o", "=">>
             \o to_string(Unwrap(self.from_year))
    ELSE url

PushToYear(url, self) ==
    IF IsSome(self.to_year)
    THEN url \o <<"&", "a", "s", "_", "y", "h", "i", "=">>
             \o to_string(Unwrap(self.to_year))
    ELSE url

PushSortBy_Inclusive(url, self) ==
    IF IsSome(self.sort_by) /\ Unwrap(self.sort_by) <= 3
    THEN url \o <<"&", "s", "c", "i", "s", "b", "d", "=">>
             \o to_string(Unwrap(self.sort_by))
    ELSE url

PushSortBy(url, self) ==
    IF IsSome(self.sort_by) /\ Unwrap(self.sort_by) < 3
    THEN url \o <<"&", "s", "c", "i", "s", "b", "d", "=">>
             \o to_string(Unwrap(self.sort_by))
    ELSE url

PushClusterId(url, self) ==
    IF IsSome(self.cluster_id)
    THEN url \o <<"&", "c", "l", "u", "s", "t", "e", "r", "=">>
             \o Unwrap(self.cluster_id)
    ELSE url

PushLang(url, self) ==
    IF IsSome(self.lang)
    THEN url \o <<"&", "h", "l", "=">> \o Unwrap(self.lang)
    ELSE url

PushLangLimit(url, self) ==
    IF IsSome(self.lang_limit)
    THEN url \o <<"&", "l", "r", "=">> \o Unwrap(self.lang_limit)
    ELSE url

PushLimit(url, self) ==
    IF IsSome(self.limit)
    THEN url \o <<"&", "n", "u", "m", "=">> \o to_string(Unwrap(self.limit))
    ELSE url

PushOffset(url, self) ==
    IF IsSome(self.offset)
    THEN url \o <<"&", "s", "t", "a", "r", "t", "=">>
             \o to_string(Unwrap(self.offset))
    ELSE url

PushAdultFiltering(url, self) ==
    IF IsSome(self.adult_filtering)
    THEN url \o <<"&", "s", "a", "f", "e", "=">>
             \o (IF Unwrap(self.adult_filtering)
                 THEN <<"a", "c", "t", "i", "v", "e">>
                 ELSE <<"o", "f", "f">>)
    ELSE url

PushIncludeSimilarResults(url, self) ==
    IF IsSome(self.include_similar_results)
    THEN url \o <<"&", "f", "i", "l", "t", "e", "r", "=">>
             \o (IF Unwrap(self.include_similar_results)
                 THEN <<"1">> ELSE <<"0">>)
    ELSE url

PushIncludeCitations(url, self) ==
    IF IsSome(self.include_citations)
    THEN url \o <<"&", "a", "s", "_", "v", "i", "s", "=">>
             \o (IF Unwrap(self.include_citations)
                 THEN <<"1">> ELSE <<"0">>)
    ELSE url

AssembledUrl_OffsetBeforeLimit(self) ==
    LET u0  == PushQuery(get_base_url, self)
        u1  == PushCiteId(u0, self)
        u2  == PushFromYear(u1, self)
        u3  == PushToYear(u2, self)
        u4  == PushSortBy(u3, self)
        u5  == PushClusterId(u4, self)
        u6  == PushLang(u5, self)
        u7  == PushLangLimit(u6, self)
        u8  == PushOffset(u7, self)
        u9  == PushLimit(u8, self)
        u10 == PushAdultFiltering(u9, self)
        u11 == PushIncludeSimilarResults(u10, self)
    IN  PushIncludeCitations(u11, self)

\* the text get_url has assembled when it reaches Url::parse
AssembledUrl(self) ==
    LET u0  == PushQuery(get_base_url, self)
        u1  == PushCiteId(u0, self)
        u2  == PushFromYear(u1, self)
        u3  == PushToYear(u2, self)
        u4  == PushSortBy(u3, self)
        u5  == PushClusterId(u4, self)
        u6  == PushLang(u5, self)
        u7  == PushLangLimit(u6, self)
        u8  == PushLimit(u7, self)
        u9  == PushOffset(u8, self)
        u10 == PushAdultFiltering(u9, self)
        u11 == PushIncludeSimilarResults(u10, self)
    IN  PushIncludeCitations(u11, self)

\* pub fn get_url(&self) -> Result<String, Error>
GetUrl(self, accepted) ==
    IF QueryMissing(self)
    THEN Err("RequiredFieldError")
    ELSE UrlParse(AssembledUrl(self), accepted)

----------------------------------------------------------------------------
(* The parsed HTML document (scraper::Html) and its selectors               *)
(*                                                                         *)
(* A document is the sequence of its top-level nodes in document order; a  *)
(* node carries its class and its descendant elements in document order.   *)
(* An element carries its tag, its class, its href attribute (an Option),  *)
(* its own text, and the class of the element of the node that encloses    *)
(* it ("" when the node itself is its parent).                              *)

Element(tag, class, href, text, within) ==
    [tag |-> tag, class |-> class, href |-> href, text |-> text,
     within |-> within]

\* Selector::parse of the five selectors of scrape_serialize
article_selector == [kind |-> "class", name |-> "gs_ri"]

title_selector == [kind |-> "class", name |-> "gs_rt"]

abstract_selector == [kind |-> "class", name |-> "gs_rs"]

author_selector == [kind |-> "class", name |-> "gs_a"]

link_selector == [kind |-> "tag", name |-> "a"]

\* whether the selector matches the element (or top-level node)
Matches(selector, e) ==
    IF selector.kind = "class" THEN e.class = selector.name
    ELSE e.tag = selector.name

\* fragment.select(..) / ElementRef::select(..): the matches in document order
Select(elements, selector) ==
    SelectSeq(elements, LAMBDA e : Matches(selector, e))

\* Iterator::next() on a fresh iterator
First(s) == IF s = <<>> THEN None ELSE Some(Head(s))

\* ElementRef::text().collect::<String>(): the text nodes of the element and
\* of its descendants, in document order
ElementText(node, e) ==
    e.text \o
    Concat([i \in 1..Len(node.children) |->
               IF e.class # "" /\ node.children[i].within = e.class
               THEN node.children[i].text ELSE <<>>])

----------------------------------------------------------------------------
(* Client::scrape_serialize *)

LinkOf_InTitle(node) ==
    LET anchors == SelectSeq(Select(node.children, link_selector),
                             LAMBDA e : e.within = title_selector.name)
    IN  IF anchors = <<>> THEN None ELSE Head(anchors).href

\* rows.get(0)?.select(&link_selector).next().and_then(|n| n.value().attr("href"))
LinkOf(node) ==
    LET n == First(Select(node.children, link_selector))
    IN  IF IsSome(n) THEN Unwrap(n).href ELSE None

ExtractRow_KeepWithoutAbstract(node) ==
    LET title  == First(Select(node.children, title_selector))
        link   == LinkOf(node)
        abs    == First(Select(node.children, abstract_selector))
        author == First(Select(node.children, author_selector))
    IN  IF title = None \/ link = None \/ author = None
        THEN None
        ELSE Some([title  |-> ElementText(node, Unwrap(title)),
                   author |-> ElementText(node, Unwrap(author)),
                   abs    |-> IF abs = None THEN <<>>
                              ELSE ElementText(node, Unwrap(abs)),
                   link   |-> Unwrap(link)])

\* the closure handed to filter_map: each `?` leaves it with None
ExtractRow(node) ==
    LET title  == First(Select(node.children, title_selector))
        link   == LinkOf(node)
        abs    == First(Select(node.children, abstract_selector))
        author == First(Select(node.children, author_selector))
    IN  IF title = None \/ link = None \/ abs = None \/ author = None
        THEN None
        ELSE Some([title  |-> ElementText(node, Unwrap(title)),
                   author |-> ElementText(node, Unwrap(author)),
                   abs    |-> ElementText(node, Unwrap(abs)),
                   link   |-> Unwrap(link)])

ScrapeSerialize_Strict(doc) ==
    LET nodes == Select(doc, article_selector)
        rows  == [i \in 1..Len(nodes) |-> ExtractRow(nodes[i])]
    IN  IF \E i \in 1..Len(rows) : rows[i] = None
        THEN Err("ParseError")
        ELSE Ok(Concat(rows))

\* fn scrape_serialize(&self, document: String): nodes.chunks_exact(1) hands
\* the closure one node at a time, and filter_map keeps the Some rows in order
ScrapeSerialize(doc) ==
    LET nodes == Select(doc, article_selector)
        rows  == [i \in 1..Len(nodes) |-> ExtractRow(nodes[i])]
    IN  Ok(Concat(rows))

----------------------------------------------------------------------------
(* The ScholarArgs the calls are made with *)

MkArgs(q, c, fy, ty, sb, cl, la, ll, li, off, af, sr, ic) ==
    [query |-> q, cite_id |-> c, from_year |-> fy, to_year |-> ty,
     sort_by |-> sb, cluster_id |-> cl, lang |-> la, lang_limit |-> ll,
     limit |-> li, offset |-> off, adult_filtering |-> af,
     include_similar_results |-> sr, include_citations |-> ic]

OptionalFields ==
    {"cite_id", "from_year", "to_year", "sort_by", "cluster_id", "lang",
     "lang_limit", "limit", "offset", "adult_filtering",
     "include_similar_results", "include_citations"}

\* the texts of the repository's tests
TextAbcd == <<"a", "b", "c", "d">>

TextCiteId == <<"2", "1", "3", "1", "2", "3", "1", "2", "3", "1", "2", "3">>

TextClusterId == <<"3", "1", "2", "1", "3", "1", "2", "3", "1", "2">>

TextEn == <<"e", "n">>

TextLangLimit ==
    <<"l", "a", "n", "g", "_", "f", "r", "|", "l", "a", "n", "g", "_", "e", "n">>

TextMachineLearning ==
    <<"m", "a", "c", "h", "i", "n", "e", "-", "l", "e", "a", "r", "n", "i",
      "n", "g">>

\* a plain character, a space and the fragment delimiter
QueryAlphabet == {"a", " ", "#"}

\* every text over QueryAlphabet of length at most n
Texts(n) == UNION {[1..k -> QueryAlphabet] : k \in 0..n}

Queries == Texts(MaxQueryLen) \cup {TextAbcd, TextMachineLearning}

OptBool == {None, Some(TRUE), Some(FALSE)}

\* every subset of the optional fields present, with the values of the tests
PresenceArgs ==
    {MkArgs(q, c, fy, ty, sb, cl, la, ll, li, off, af, sr, ic) :
        q \in {<<>>, TextAbcd, <<"a", " ", "b">>},
        c \in {None, Some(TextCiteId)},
        fy \in {None, Some(2018)},
        ty \in {None, Some(2021)},
        sb \in {None, Some(0)},
        cl \in {None, Some(TextClusterId)},
        la \in {None, Some(TextEn)},
        ll \in {None, Some(TextLangLimit)},
        li \in {None, Some(10)},
        off \in {None, Some(5)},
        af \in {None, Some(TRUE)},
        sr \in {None, Some(TRUE)},
        ic \in {None, Some(TRUE)}}

\* every query, sort mode and flag value, the other fields absent
ValueArgs ==
    {MkArgs(q, None, None, None, sb, None, None, None, None, None, af, sr, ic) :
        q \in Queries,
        sb \in {None, Some(0), Some(1), Some(2), Some(3), Some(255)},
        af \in OptBool, sr \in OptBool, ic \in OptBool}

UrlArgs == PresenceArgs \cup ValueArgs

AllAbsent(self) == \A f \in OptionalFields : self[f] = None

AllPresent(self) == \A f \in OptionalFields : IsSome(self[f])

----------------------------------------------------------------------------
(* Calls of get_url alone *)

InitCommon ==
    /\ pc = "start"
    /\ parserAccepts = TRUE
    /\ urlOutcome = Pending
    /\ requests = <<>>
    /\ sendOutcome = "none"
    /\ textOutcome = "none"
    /\ extractorRuns = 0
    /\ result = Pending

InitUrl ==
    /\ InitCommon
    /\ args \in UrlArgs
    /\ document = <<>>

\* let r = args.get_url();
CallGetUrl ==
    /\ pc = "start"
    /\ \E accepted \in BOOLEAN :
        /\ parserAccepts' = accepted
        /\ urlOutcome' = GetUrl(args, accepted)
    /\ result' = urlOutcome'
    /\ pc' = "done"
    /\ UNCHANGED <<args, requests, sendOutcome, textOutcome, document,
                   extractorRuns>>

NextUrl == CallGetUrl

SpecUrl == InitUrl /\ [][NextUrl]_vars

----------------------------------------------------------------------------
(* Claims about get_url, checked under SpecUrl *)

\* the text has no character that URL normalisation rewrites or drops
Plain(s) ==
    \A i \in 1..Len(s) : s[i] \notin {" ", "\t", "\n", "\r", "\"", "<", ">", "'"}

PlainArgs(self) ==
    /\ Plain(self.query)
    /\ \A f \in {"cite_id", "cluster_id", "lang", "lang_limit"} :
        IsSome(self[f]) => Plain(Unwrap(self[f]))

\* "&key=value" for a present field, nothing for an absent one
Segment(key, field, value) ==
    IF IsSome(field) THEN <<"&">> \o key \o <<"=">> \o value ELSE <<>>

TextOfOption(o) == IF IsSome(o) THEN Unwrap(o) ELSE <<>>

NumberOfOption(o) == IF IsSome(o) THEN to_string(Unwrap(o)) ELSE <<>>

\* the URL text the claim describes: base, q=<query>, then the segments of
\* the present fields in the claim's order
ClaimedUrl(self) ==
    get_base_url \o <<"q", "=">> \o self.query \o Concat(<<
        Segment(<<"c", "i", "t", "e", "s">>, self.cite_id,
                TextOfOption(self.cite_id)),
        Segment(<<"a", "s", "_", "y", "l", "o">>, self.from_year,
                NumberOfOption(self.from_year)),
        Segment(<<"a", "s", "_", "y", "h", "i">>, self.to_year,
                NumberOfOption(self.to_year)),
        IF IsSome(self.sort_by) /\ Unwrap(self.sort_by) \in {0, 1, 2}
        THEN Segment(<<"s", "c", "i", "s", "b", "d">>, self.sort_by,
                     NumberOfOption(self.sort_by))
        ELSE <<>>,
        Segment(<<"c", "l", "u", "s", "t", "e", "r">>, self.cluster_id,
                TextOfOption(self.cluster_id)),
        Segment(<<"h", "l">>, self.lang, TextOfOption(self.lang)),
        Segment(<<"l", "r">>, self.lang_limit, TextOfOption(self.lang_limit)),
        Segment(<<"n", "u", "m">>, self.limit, NumberOfOption(self.limit)),
        Segment(<<"s", "t", "a", "r", "t">>, self.offset,
                NumberOfOption(self.offset)),
        Segment(<<"s", "a", "f", "e">>, self.adult_filtering,
                IF self.adult_filtering = Some(TRUE)
                THEN <<"a", "c", "t", "i", "v", "e">> ELSE <<"o", "f", "f">>),
        Segment(<<"f", "i", "l", "t", "e", "r">>, self.include_similar_results,
                IF self.include_similar_results = Some(TRUE)
                THEN <<"1">> ELSE <<"0">>),
        Segment(<<"a", "s", "_", "v", "i", "s">>, self.include_citations,
                IF self.include_citations = Some(TRUE)
                THEN <<"1">> ELSE <<"0">>)>>)

\* the URL the test build_url_all expects
BuildUrlAllExpected ==
    <<"h", "t", "t", "p", "s", ":", "/", "/", "s", "c", "h", "o", "l", "a",
      "r", ".", "g", "o", "o", "g", "l", "e", ".", "c", "o", "m", "/", "s",
      "c", "h", "o", "l", "a", "r", "?", "q", "=", "a", "b", "c", "d", "&",
      "c", "i", "t", "e", "s", "=", "2", "1", "3", "1", "2", "3", "1", "2",
      "3", "1", "2", "3", "&", "a", "s", "_", "y", "l", "o", "=", "2", "0",
      "1", "8", "&", "a", "s", "_", "y", "h", "i", "=", "2", "0", "2", "1",
      "&", "s", "c", "i", "s", "b", "d", "=", "0", "&", "c", "l", "u", "s",
      "t", "e", "r", "=", "3", "1", "2", "1", "3", "1", "2", "3", "1", "2",
      "&", "h", "l", "=", "e", "n", "&", "l", "r", "=", "l", "a", "n", "g",
      "_", "f", "r", "|", "l", "a", "n", "g", "_", "e", "n", "&", "n", "u",
      "m", "=", "1", "0", "&", "s", "t", "a", "r", "t", "=", "5", "&", "s",
      "a", "f", "e", "=", "a", "c", "t", "i", "v", "e", "&", "f", "i", "l",
      "t", "e", "r", "=", "1", "&", "a", "s", "_", "v", "i", "s", "=", "1">>

GetUrlReturned == pc = "done" /\ urlOutcome.ok

C2_EmptyQueryRejected ==
    pc = "done" =>
        /\ args.query = <<>> => urlOutcome = Err("RequiredFieldError")
        /\ urlOutcome.err = "RequiredFieldError" => args.query = <<>>

\* an empty query with every optional field present was rejected
C2_Witness ==
    /\ pc = "done"
    /\ args.query = <<>>
    /\ AllPresent(args)
    /\ urlOutcome = Err("RequiredFieldError")

(* C3, as stated: with every optional field absent the URL is exactly the    *)
(* base followed by q= and the query text verbatim.                          *)
C3_QueryVerbatim ==
    (GetUrlReturned /\ AllAbsent(args)) =>
        urlOutcome.val = get_base_url \o <<"q", "=">> \o args.query

(* C3, amended: with every optional field absent the URL is the normalised   *)
(* form of base?q=<query> and nothing else; the query text stands verbatim   *)
(* when it holds no character that normalisation rewrites or drops.          *)
C3_QueryNormalized ==
    (GetUrlReturned /\ AllAbsent(args)) =>
        /\ urlOutcome.val =
              UrlSerialize(get_base_url \o <<"q", "=">> \o args.query)
        /\ Plain(args.query) =>
              urlOutcome.val = get_base_url \o <<"q", "=">> \o args.query

\* the call of the test build_url_query returned base?q=abcd
C3_Witness ==
    /\ GetUrlReturned
    /\ AllAbsent(args)
    /\ args.query = TextAbcd
    /\ urlOutcome.val = get_base_url \o <<"q", "=", "a", "b", "c", "d">>

(* C4: a sort_by of 3 or more makes get_url return what it returns with      *)
(* sort_by absent, a URL without scisbd; a sort_by of 0, 1 or 2 puts exactly *)
(* one &scisbd=<value> in the URL.                                           *)
C4_SortByLenient ==
    (pc = "done" /\ IsSome(args.sort_by)) =>
        LET scisbd == <<"s", "c", "i", "s", "b", "d">>
            param  == <<"&">> \o scisbd \o <<"=">>
        IN  IF Unwrap(args.sort_by) >= 3
            THEN /\ urlOutcome =
                       GetUrl([args EXCEPT !.sort_by = None], parserAccepts)
                 /\ ~Contains(urlOutcome.val, scisbd)
            ELSE urlOutcome.ok =>
                 /\ Cardinality(Occurrences(urlOutcome.val, scisbd)) = 1
                 /\ Cardinality(Occurrences(urlOutcome.val,
                        param \o to_string(Unwrap(args.sort_by)))) = 1

\* the call with an out-of-range sort_by returned the URL without scisbd
C4_Witness ==
    /\ GetUrlReturned
    /\ args.sort_by = Some(255)
    /\ args.query = TextAbcd
    /\ urlOutcome.val = get_base_url \o <<"q", "=", "a", "b", "c", "d">>

----------------------------------------------------------------------------
(* The documents scrape_serialize is run on *)

H3Title == Element("h3", "gs_rt", None, <<"T">>, "")

TitleAnchor(href) == Element("a", "", href, <<"t">>, "gs_rt")

BlockAnchor(href) == Element("a", "", href, <<"p">>, "")

DivAuthor == Element("div", "gs_a", None, <<"A">>, "")

AuthorAnchor == Element("a", "", Some(<<"u3">>), <<"n">>, "gs_a")

DivAbstract == Element("div", "gs_rs", None, <<"S">>, "")

\* anchors of the block that stand before its title
LeadParts == {<<>>, <<BlockAnchor(Some(<<"u2">>))>>, <<BlockAnchor(None)>>}

\* no title, a bare title, a title around a link, a title around an anchor
\* without href
TitleParts ==
    {<<>>, <<H3Title>>, <<H3Title, TitleAnchor(Some(<<"u1">>))>>,
     <<H3Title, TitleAnchor(None)>>}

\* no author line, or one around a profile link
AuthorParts == {<<>>, <<DivAuthor, AuthorAnchor>>}

AbstractParts == {<<>>, <<DivAbstract>>}

Node(class, children) == [tag |-> "div", class |-> class, children |-> children]

\* the ".gs_ri" result blocks
Blocks ==
    {Node("gs_ri", l \o ti \o au \o ab) :
        l \in LeadParts, ti \in TitleParts, au \in AuthorParts,
        ab \in AbstractParts}

\* top-level nodes that are no result block, one of them with all four parts
OtherNodes ==
    {Node("gs_top", <<>>),
     Node("gs_r", <<H3Title, TitleAnchor(Some(<<"u1">>)), DivAuthor,
                    AuthorAnchor, DivAbstract>>)}

\* every document of at most n top-level nodes
DocsUpTo(n) == UNION {[1..k -> Blocks \cup OtherNodes] : k \in 0..n}

Docs == DocsUpTo(MaxBlocks)

\* the ScholarArgs of the test scrape_with_query
ScrapeWithQueryArgs ==
    MkArgs(TextMachineLearning, None, None, None, None, None, None, None,
           Some(3), Some(0), None, None, None)

----------------------------------------------------------------------------
(* Calls of scrape_serialize alone *)

InitScrape ==
    /\ InitCommon
    /\ args = ScrapeWithQueryArgs
    /\ document \in Docs

\* let r = client.scrape_serialize(document);
CallScrapeSerialize ==
    /\ pc = "start"
    /\ result' = ScrapeSerialize(document)
    /\ extractorRuns' = extractorRuns + 1
    /\ pc' = "done"
    /\ UNCHANGED <<args, parserAccepts, urlOutcome, requests, sendOutcome,
                   textOutcome, document>>

NextScrape == CallScrapeSerialize

SpecScrape == InitScrape /\ [][NextScrape]_vars

----------------------------------------------------------------------------
(* Client::scrape_scholar, with Client::get_document inlined at its awaits *)

ClientArgs ==
    {ScrapeWithQueryArgs,
     [ScrapeWithQueryArgs EXCEPT !.query = <<>>],
     [ScrapeWithQueryArgs EXCEPT !.query = <<"a", " ", "b">>],
     [ScrapeWithQueryArgs EXCEPT !.sort_by = Some(3)],
     MkArgs(TextAbcd, Some(TextCiteId), Some(2018), Some(2021), Some(0),
            Some(TextClusterId), Some(TextEn), Some(TextLangLimit), Some(10),
            Some(5), Some(TRUE), Some(TRUE), Some(TRUE))}

\* the bodies the server answers with
ClientDocs == DocsUpTo(1)

Init ==
    /\ InitCommon
    /\ args \in ClientArgs
    /\ document = <<>>

BuildUrl_FetchAnyway ==
    /\ pc = "start"
    /\ \E accepted \in BOOLEAN :
        /\ parserAccepts' = accepted
        /\ urlOutcome' = GetUrl(args, accepted)
    /\ pc' = "send"
    /\ UNCHANGED <<args, requests, sendOutcome, textOutcome, document,
                   extractorRuns, result>>

\* let url = args.get_url()?;
BuildUrl ==
    /\ pc = "start"
    /\ \E accepted \in BOOLEAN :
        /\ parserAccepts' = accepted
        /\ urlOutcome' = GetUrl(args, accepted)
    /\ IF urlOutcome'.ok
       THEN pc' = "send" /\ UNCHANGED result
       ELSE pc' = "done" /\ result' = urlOutcome'
    /\ UNCHANGED <<args, requests, sendOutcome, textOutcome, document,
                   extractorRuns>>

SendFails_Retry ==
    /\ pc = "send"
    /\ Len(requests) < 2
    /\ requests' = Append(requests, urlOutcome.val)
    /\ sendOutcome' = "failed"
    /\ IF Len(requests) = 1
       THEN result' = ConnectionError(urlOutcome.val) /\ pc' = "done"
       ELSE UNCHANGED <<result, pc>>
    /\ UNCHANGED <<args, parserAccepts, urlOutcome, textOutcome, document,
                   extractorRuns>>

\* self.client.get(url).send().await fails:
\* .map_err(|_err| Error::ConnectionError(url.to_string()))?
SendFails ==
    /\ pc = "send"
    /\ requests' = Append(requests, urlOutcome.val)
    /\ sendOutcome' = "failed"
    /\ result' = ConnectionError(urlOutcome.val)
    /\ pc' = "done"
    /\ UNCHANGED <<args, parserAccepts, urlOutcome, textOutcome, document,
                   extractorRuns>>

\* self.client.get(url).send().await answers
SendOk ==
    /\ pc = "send"
    /\ requests' = Append(requests, urlOutcome.val)
    /\ sendOutcome' = "ok"
    /\ pc' = "text"
    /\ UNCHANGED <<args, parserAccepts, urlOutcome, textOutcome, document,
                   extractorRuns, result>>

\* resp.text().await fails: .map_err(|_| Error::ParseError)?
TextFails ==
    /\ pc = "text"
    /\ textOutcome' = "failed"
    /\ result' = Err("ParseError")
    /\ pc' = "done"
    /\ UNCHANGED <<args, parserAccepts, urlOutcome, requests, sendOutcome,
                   document, extractorRuns>>

\* resp.text().await yields the body
TextOk ==
    /\ pc = "text"
    /\ textOutcome' = "ok"
    /\ \E d \in ClientDocs : document' = d
    /\ pc' = "scrape"
    /\ UNCHANGED <<args, parserAccepts, urlOutcome, requests, sendOutcome,
                   extractorRuns, result>>

\* self.scrape_serialize(doc)
Scrape ==
    /\ pc = "scrape"
    /\ result' = ScrapeSerialize(document)
    /\ extractorRuns' = extractorRuns + 1
    /\ pc' = "done"
    /\ UNCHANGED <<args, parserAccepts, urlOutcome, requests, sendOutcome,
                   textOutcome, document>>

Next == BuildUrl \/ SendFails \/ SendOk \/ TextFails \/ TextOk \/ Scrape

Spec == Init /\ [][Next]_vars

----------------------------------------------------------------------------
(* Claims about scrape_serialize, checked under SpecScrape *)

HasClass(node, class) ==
    \E i \in 1..Len(node.children) : node.children[i].class = class

AnchorPositions(node) ==
    {i \in 1..Len(node.children) : node.children[i].tag = "a"}

\* the first anchor of the block in document order, wherever it stands
FirstAnchor(node) ==
    node.children[CHOOSE i \in AnchorPositions(node) :
                     \A j \in AnchorPositions(node) : i <= j]

\* the block has a title, an abstract, an author line, and a first anchor
\* with an href
Complete(node) ==
    /\ HasClass(node, "gs_rt")
    /\ HasClass(node, "gs_rs")
    /\ HasClass(node, "gs_a")
    /\ AnchorPositions(node) # {}
    /\ IsSome(FirstAnchor(node).href)

\* the positions in the document of the complete ".gs_ri" blocks
CompleteBlocks(doc) ==
    {i \in 1..Len(doc) : doc[i].class = "gs_ri" /\ Complete(doc[i])}

\* the k-th smallest member of S
Kth(S, k) == CHOOSE i \in S : Cardinality({j \in S : j <= i}) = k

FirstOfClass(node, class) ==
    node.children[CHOOSE i \in 1..Len(node.children) :
                     /\ node.children[i].class = class
                     /\ \A j \in 1..(i - 1) : node.children[j].class # class]

\* the record of a complete block
RecordOf(node) ==
    [title  |-> ElementText(node, FirstOfClass(node, "gs_rt")),
     author |-> ElementText(node, FirstOfClass(node, "gs_a")),
     abs    |-> ElementText(node, FirstOfClass(node, "gs_rs")),
     link   |-> Unwrap(FirstAnchor(node).href)]

(* C6: scrape_serialize returns one record per complete ".gs_ri" block and   *)
(* none for any other node, in document order: the k-th record is the record *)
(* of the k-th complete block, whatever incomplete blocks stand around it.   *)
C6_CompleteBlocksInOrder ==
    pc = "done" =>
        /\ result.ok
        /\ Len(result.val) = Cardinality(CompleteBlocks(document))
        /\ \A k \in 1..Len(result.val) :
              result.val[k] =
                  RecordOf(document[Kth(CompleteBlocks(document), k)])

\* an incomplete block before a complete one: one record, the complete one's
C6_Witness ==
    /\ pc = "done"
    /\ Len(document) = 2
    /\ document[1].class = "gs_ri" /\ ~Complete(document[1])
    /\ document[1].children # <<>>
    /\ document[2].class = "gs_ri" /\ Complete(document[2])
    /\ result.ok /\ Len(result.val) = 1
    /\ result.val[1] = RecordOf(document[2])

(* C7: scrape_serialize never returns an error, and returns the empty        *)
(* sequence when no block matches or every matched block is incomplete.      *)
C7_NeverAnError ==
    pc = "done" =>
        /\ result.ok
        /\ CompleteBlocks(document) = {} => result = Ok(<<>>)

\* two result blocks, both incomplete, and an empty successful result
C7_Witness ==
    /\ pc = "done"
    /\ Len(document) = 2
    /\ \A i \in 1..2 : document[i].class = "gs_ri" /\ ~Complete(document[i])
    /\ result = Ok(<<>>)

(* C10: the link of every returned record is the href of the first anchor of *)
(* its block in document order, inside the title or not; later anchors of    *)
(* the block do not matter.                                                  *)
C10_LinkIsFirstAnchor ==
    pc = "done" =>
        /\ result.ok
        /\ \A k \in 1..Len(result.val) :
              /\ k <= Cardinality(CompleteBlocks(document))
              /\ result.val[k].link =
                    Unwrap(FirstAnchor(
                        document[Kth(CompleteBlocks(document), k)]).href)

\* a block whose first anchor stands before the title and whose title holds
\* another link: the record's link is the first anchor's
C10_Witness ==
    /\ pc = "done"
    /\ document = <<Node("gs_ri",
                        <<BlockAnchor(Some(<<"u2">>)), H3Title,
                          TitleAnchor(Some(<<"u1">>)), DivAuthor,
                          AuthorAnchor, DivAbstract>>)>>
    /\ result.ok /\ Len(result.val) = 1
    /\ result.val[1].link = <<"u2">>

----------------------------------------------------------------------------
(* Claims about scrape_scholar, checked under Spec *)

GetUrlCalled == urlOutcome # Pending

(* C5, as stated: when Url::parse rejects the assembled text get_url returns *)
(* a MalformedURL error, a kind other than ParseError; when it accepts,      *)
(* get_url returns the normalised URL text.                                  *)
C5_MalformedUrlKind ==
    (GetUrlCalled /\ args.query # <<>>) =>
        IF parserAccepts
        THEN urlOutcome = Ok(UrlSerialize(AssembledUrl(args)))
        ELSE /\ ~urlOutcome.ok
             /\ urlOutcome.err = "MalformedURL"
             /\ urlOutcome.err # "ParseError"

(* C5, amended: when Url::parse rejects the assembled text get_url returns   *)
(* ParseError, the kind a body-decoding failure maps to as well; when it     *)
(* accepts, get_url returns the normalised URL text.                         *)
C5_UrlParseErrorKind ==
    /\ (GetUrlCalled /\ args.query # <<>>) =>
          IF parserAccepts
          THEN urlOutcome = Ok(UrlSerialize(AssembledUrl(args)))
          ELSE urlOutcome = Err("ParseError")
    /\ textOutcome = "failed" => result = Err("ParseError")
    /\ urlOutcome.err \in ErrorKinds \cup {"", "pending"}

\* a call whose assembled text the parser rejected ended with ParseError
C5_Witness ==
    /\ pc = "done"
    /\ args.query # <<>>
    /\ ~parserAccepts
    /\ result = Err("ParseError")
    /\ requests = <<>>

(* C8: a failed send ends the call with ConnectionError carrying the URL     *)
(* get_url returned, a failed body read ends it with ParseError, neither     *)
(* runs the extractor, and a call issues at most one GET.                    *)
C8_FetchFailures ==
    /\ Len(requests) <= 1
    /\ sendOutcome = "failed" =>
          /\ pc = "done"
          /\ urlOutcome.ok
          /\ requests = <<urlOutcome.val>>
          /\ result = ConnectionError(urlOutcome.val)
          /\ extractorRuns = 0
    /\ textOutcome = "failed" =>
          /\ pc = "done"
          /\ result = Err("ParseError")
          /\ extractorRuns = 0

\* a call whose one GET failed ended with ConnectionError for the built URL
C8_Witness ==
    /\ pc = "done"
    /\ sendOutcome = "failed"
    /\ Len(requests) = 1
    /\ args.query = <<"a", " ", "b">>
    /\ result.err = "ConnectionError"
    /\ result.target = UrlSerialize(AssembledUrl(args))
    /\ extractorRuns = 0

(* C9: a GET is issued only after get_url succeeded and only for its URL,    *)
(* the extractor runs only after the GET and the body read succeeded, and a  *)
(* failed get_url ends the call with that very error, no GET and no          *)
(* extraction.                                                               *)
C9_BuildFetchExtractOrder ==
    /\ requests # <<>> => (urlOutcome.ok /\ requests = <<urlOutcome.val>>)
    /\ sendOutcome # "none" => requests # <<>>
    /\ textOutcome # "none" => sendOutcome = "ok"
    /\ extractorRuns > 0 => (textOutcome = "ok" /\ extractorRuns = 1)
    /\ (GetUrlCalled /\ ~urlOutcome.ok) =>
          /\ pc = "done"
          /\ result = urlOutcome
          /\ requests = <<>>
          /\ sendOutcome = "none"
          /\ extractorRuns = 0

\* a call with an empty query ended with get_url's error and no GET
C9_Witness ==
    /\ pc = "done"
    /\ args.query = <<>>
    /\ urlOutcome = Err("RequiredFieldError")
    /\ result = urlOutcome
    /\ requests = <<>>
    /\ extractorRuns = 0

====
